---- MODULE Spec2Model ----
(***************************************************************************)
(* Model of the used-vehicle dashboard of src/app.py: the data frame df    *)
(* read at start-up, the three filter controls of app.layout, and the      *)
(* three callbacks update_mileage_chart, update_price_graph, update_table. *)
(*                                                                         *)
(* Strings are TLA+ strings; where the program orders or lower-cases them  *)
(* (sorted(..., key=str.lower), groupby's sorted keys, str(year)) the      *)
(* model works on their character codes, see Codes.                        *)
(* An optional value (a component property that is None until its callback *)
(* has run) is <<>> for None and <<v>> for the value v.                    *)
(***************************************************************************)
EXTENDS Integers, Sequences, FiniteSets, TLC

VARIABLES
    df,              \* the module-level data frame
    min_year,        \* module-level, line 24
    max_year,        \* module-level, line 25
    sorted_brands,   \* module-level, line 35
    selected_brands, \* value of brand-dropdown-multi (a set: isin reads membership only)
    selected_years,  \* value of year-range-slider, <<low, high>>
    selected_brand,  \* value of brand-dropdown-single
    mileage_fig,     \* figure of mileage-bar-chart
    price_fig,       \* figure of price-scatterplot
    table_children,  \* children of data-table
    pending,         \* callbacks the renderer has dispatched and that have not run yet
    call,            \* the last direct invocation of a callback: <<>> or <<[fn, args, out]>>
    snap             \* an earlier invocation kept for comparison:
                     \* <<>> or <<[fn, args, out, again]>>

vars == <<df, min_year, max_year, sorted_brands, selected_brands, selected_years, selected_brand,
          mileage_fig, price_fig, table_children, pending, call, snap>>

----------------------------------------------------------------------------
(* Bounds of the model *)

\* longest data.csv (number of rows) the model loads
MaxRows == 3

----------------------------------------------------------------------------
(* Strings *)

\* the character codes of the strings the model orders or lower-cases
Codes(s) ==
    CASE s = "audi"      -> <<97, 117, 100, 105>>
      [] s = "Ford"      -> <<70, 111, 114, 100>>
      [] s = "ford"      -> <<102, 111, 114, 100>>
      [] s = "Toyota"    -> <<84, 111, 121, 111, 116, 97>>
      [] s = "automatic" -> <<97, 117, 116, 111, 109, 97, 116, 105, 99>>
      [] s = "manual"    -> <<109, 97, 110, 117, 97, 108>>

\* str.lower on character codes: A..Z become a..z
Lower(cs) == [i \in DOMAIN cs |-> IF cs[i] >= 65 /\ cs[i] <= 90 THEN cs[i] + 32 ELSE cs[i]]

\* Python's < on strings: lexicographic on the codes, a proper prefix is smaller
LexLess(a, b) ==
    \E i \in 1..(Len(a) + 1) :
        /\ \A j \in 1..(i - 1) : j <= Len(b) /\ a[j] = b[j]
        /\ \/ i = Len(a) + 1 /\ Len(b) >= i
           \/ i <= Len(a) /\ i <= Len(b) /\ a[i] < b[i]

StrLess(s, t) == LexLess(Codes(s), Codes(t))

\* the sort key of line 35: x.lower()
LowerKey(s) == Lower(Codes(s))

\* str(n) for n >= 0: the decimal digits, as character codes
RECURSIVE str(_)
str(n) == IF n < 10 THEN <<48 + n>> ELSE Append(str(n \div 10), 48 + (n % 10))

----------------------------------------------------------------------------
(* Sequences *)

Range(s) == {s[i] : i \in DOMAIN s}

\* pandas unique(): the distinct values in order of first appearance
RECURSIVE Unique(_)
Unique(s) ==
    IF s = <<>> THEN <<>>
    ELSE LET u == Unique(SubSeq(s, 1, Len(s) - 1))
             x == s[Len(s)]
         IN  IF x \in Range(u) THEN u ELSE Append(u, x)

----------------------------------------------------------------------------
(* The data frame *)

\* the header of data.csv, in file order
Columns == <<"brand", "model", "model_year", "mileage", "price", "transmission">>

Row(b, m, y, mi, p, t) ==
    [brand |-> b, model |-> m, model_year |-> y, mileage |-> mi, price |-> p, transmission |-> t]

\* the records a data.csv of the model is made of
RowUniverse ==
    { Row("audi", "A4",    2015, 50000, 10000, "automatic"),
      Row("audi", "A4",    2016, 20001, 15000, "automatic"),
      Row("Ford", "F150",  2015, 20000, 18000, "manual"),
      Row("Ford", "Focus", 2017, 60000,  9000, "automatic"),
      Row("ford", "Focus", 2016, 40000, 12000, "manual") }

\* every value a caller can pass for a brand: the brands of RowUniverse and one in no row
BrandUniverse == {"audi", "Ford", "ford", "Toyota"}

\* every value a caller can pass for a year
YearUniverse == {2015, 2016, 2017}

\* pd.read_csv("data.csv"): a data frame of 1..MaxRows records of U; an empty one does
\* not get past lines 24-36 (sorted_brands[0] raises IndexError)
read_csv(U) ==
    { [columns |-> Columns, rows |-> r] :
        r \in UNION { [1..n -> U] : n \in 1..MaxRows } }

DataFrames == read_csv(RowUniverse)

\* the entries of rows at the positions where the boolean mask holds, in their order
RECURSIVE Take(_, _)
Take(rows, mask) ==
    IF rows = <<>> THEN <<>>
    ELSE LET n == Len(rows)
             front == Take(SubSeq(rows, 1, n - 1), SubSeq(mask, 1, n - 1))
         IN  IF mask[n] THEN Append(front, rows[n]) ELSE front

\* df[mask]: the rows the boolean mask keeps, in their order, under the same columns
Filter(d, mask) == [columns |-> d.columns, rows |-> Take(d.rows, mask)]

\* Empty, had the callbacks not tested for an empty frame
EmptyNever(d) == FALSE

\* DataFrame.empty
Empty(d) == d.rows = <<>>

\* df[col]: one column as a sequence
Column(d, col) == [i \in DOMAIN d.rows |-> d.rows[i][col]]

Min(S) == CHOOSE x \in S : \A y \in S : x <= y
Max(S) == CHOOSE x \in S : \A y \in S : x >= y

\* range, had it included its end
RangeInclusive(a, b) == [i \in 1..(IF b >= a THEN b - a + 1 ELSE 0) |-> a + i - 1]

\* range(a, b): a, a+1, ..., b-1
range(a, b) == [i \in 1..(IF b > a THEN b - a ELSE 0) |-> a + i - 1]

----------------------------------------------------------------------------
(* Start-up: lines 24-46 *)

\* df['model_year'].min() and .max()
MinYear(d) == Min(Range(Column(d, "model_year")))
MaxYear(d) == Max(Range(Column(d, "model_year")))

\* the key sorted() orders the brands by
SortKey(s) == LowerKey(s)

\* list.insert of x into the sorted t, after every entry whose key is not greater
\* (sorted() is stable)
Insert(x, t) ==
    LET p == Cardinality({i \in DOMAIN t : ~LexLess(SortKey(x), SortKey(t[i]))})
    IN  SubSeq(t, 1, p) \o <<x>> \o SubSeq(t, p + 1, Len(t))

\* sorted(s, key=lambda x: x.lower())
RECURSIVE sorted(_)
sorted(s) ==
    IF s = <<>> THEN <<>>
    ELSE Insert(s[Len(s)], sorted(SubSeq(s, 1, Len(s) - 1)))

\* line 35
SortedBrands(d) == sorted(Unique(Column(d, "brand")))

\* line 36
first_brand == sorted_brands[1]

colors == <<"#EF553B", "#377eb8", "#999999", "#54A24B", "#F58518", "#EECA3B">>

----------------------------------------------------------------------------
(* groupby(['brand', 'transmission'])['mileage'].mean().reset_index() *)

RECURSIVE Sum(_)
Sum(s) == IF s = <<>> THEN 0 ELSE s[Len(s)] + Sum(SubSeq(s, 1, Len(s) - 1))

RECURSIVE GCD(_, _)
GCD(a, b) == IF b = 0 THEN a ELSE GCD(b, a % b)

\* the quotient n / d (d > 0) as a fraction in lowest terms
Quotient(n, d) == LET g == GCD(n, d) IN [num |-> n \div g, den |-> d \div g]

\* Series.mean(): the sum of the values over their number
Mean(s) == Quotient(Sum(s), Len(s))

\* the order groupby sorts its keys in: by brand, then by transmission
KeyLess(k, l) == StrLess(k[1], l[1]) \/ (k[1] = l[1] /\ StrLess(k[2], l[2]))

\* the keys of S in ascending order
RECURSIVE SortKeys(_)
SortKeys(S) ==
    IF S = {} THEN <<>>
    ELSE LET k == CHOOSE k \in S : \A l \in S \ {k} : KeyLess(k, l)
         IN  <<k>> \o SortKeys(S \ {k})

\* the group key of a row
GroupKey(r) == <<r.brand, r.transmission>>

\* Group, had the code grouped by 'brand' alone
GroupByBrand(d, k) == Filter(d, [i \in DOMAIN d.rows |-> d.rows[i].brand = k[1]])

\* the rows of d in the group k
Group(d, k) == Filter(d, [i \in DOMAIN d.rows |-> GroupKey(d.rows[i]) = k])

\* one row per group, in key order, with the mean of the group's mileage
GroupMean(d) ==
    LET keys == SortKeys({GroupKey(d.rows[i]) : i \in DOMAIN d.rows})
    IN  [columns |-> <<"brand", "transmission", "mileage">>,
         rows |-> [i \in DOMAIN keys |->
                     [brand |-> keys[i][1], transmission |-> keys[i][2],
                      mileage |-> Mean(Column(Group(d, keys[i]), "mileage"))]]]

----------------------------------------------------------------------------
(* plotly.express *)

\* SequenceColor, had the position been taken as an index from 0
SequenceColorShifted(n) == colors[(n % Len(colors)) + 1]

\* the colour px gives the n-th category it meets: color_discrete_sequence, cycled
SequenceColor(n) == colors[((n - 1) % Len(colors)) + 1]

\* px.bar / px.scatter with color=col: one trace per value of col, in order of first
\* appearance in d; the n-th trace takes the n-th colour and the rows of its value
Traces(d, col, x, y, hover) ==
    LET cats == Unique(Column(d, col))
    IN  [n \in DOMAIN cats |->
            LET part == Filter(d, [i \in DOMAIN d.rows |-> d.rows[i][col] = cats[n]])
            IN  [name |-> cats[n], color |-> SequenceColor(n),
                 x |-> Column(part, x), y |-> Column(part, y),
                 customdata |-> IF hover = "" THEN <<>> ELSE Column(part, hover)]]

\* xaxis of a figure nobody set ticks on
AutoAxis == [tickmode |-> "auto", tickvals |-> <<>>, ticktext |-> <<>>]

\* go.Figure().update_layout(title_text=t)
EmptyFigure(t) == [title |-> t, data |-> <<>>, xaxis |-> AutoAxis]

----------------------------------------------------------------------------
(* The callbacks *)

\* the mask of line 109: df['brand'].isin(selected_brands)
MileageMask(d, brands) == [i \in DOMAIN d.rows |-> d.rows[i].brand \in brands]

\* PriceMask, had the upper bound been tested with <
PriceMaskExclusive(d, brands, years) ==
    [i \in DOMAIN d.rows |-> /\ d.rows[i].brand \in brands
                             /\ d.rows[i].model_year >= years[1]
                             /\ d.rows[i].model_year < years[2]]

\* the mask of lines 155-157
PriceMask(d, brands, years) ==
    [i \in DOMAIN d.rows |-> /\ d.rows[i].brand \in brands
                             /\ d.rows[i].model_year >= years[1]
                             /\ d.rows[i].model_year <= years[2]]

\* TableMask, had the brands been compared in lower case
TableMaskLower(d, brand) == [i \in DOMAIN d.rows |-> LowerKey(d.rows[i].brand) = LowerKey(brand)]

\* the mask of line 199: df['brand'] == selected_brand
TableMask(d, brand) == [i \in DOMAIN d.rows |-> d.rows[i].brand = brand]

\* lines 107-145
update_mileage_chart(brands) ==
    LET filtered_df == Filter(df, MileageMask(df, brands))
    IN  IF Empty(filtered_df)
        THEN EmptyFigure("No data available for selected brands")
        ELSE LET avg_mileage == GroupMean(filtered_df)
             IN  [title |-> "Average Mileage by Vehicle Brand and Transmission Type",
                  data |-> Traces(avg_mileage, "transmission", "brand", "mileage", ""),
                  xaxis |-> AutoAxis]

\* lines 154-190
update_price_graph(brands, years) ==
    LET filtered_df == Filter(df, PriceMask(df, brands, years))
    IN  IF Empty(filtered_df)
        THEN EmptyFigure("No data available for selected criteria")
        ELSE LET ticks == range(years[1], years[2] + 1)
             IN  [title |-> "Price Trends Over Selected Years",
                  data |-> Traces(filtered_df, "brand", "model_year", "price", "model"),
                  xaxis |-> [tickmode |-> "array",
                             tickvals |-> ticks,
                             ticktext |-> [i \in DOMAIN ticks |-> str(ticks[i])]]]

\* number of rows the table shows per page
page_size == 9

\* html.H6(text): the text in its f-string parts
H6(parts) == [tag |-> "H6", text |-> parts]

\* lines 198-216
update_table(brand) ==
    LET filtered_df == Filter(df, TableMask(df, brand))
    IN  IF Empty(filtered_df)
        THEN << H6(<<"No data available for ", brand>>) >>
        ELSE << H6(<<"Data Table for ", brand, " vehicles">>),
                [tag |-> "DataTable",
                 columns |-> [i \in DOMAIN filtered_df.columns |->
                                [name |-> filtered_df.columns[i],
                                 id |-> filtered_df.columns[i]]],
                 data |-> filtered_df.rows,
                 page_size |-> page_size] >>

----------------------------------------------------------------------------
(* The callback registry: the @app.callback decorators *)

Callbacks == {"update_mileage_chart", "update_price_graph", "update_table"}

\* Inputs, had update_price_graph not listed the slider
InputsNoSlider(cb) ==
    CASE cb = "update_mileage_chart" -> {"brand-dropdown-multi"}
      [] cb = "update_price_graph"   -> {"brand-dropdown-multi"}
      [] cb = "update_table"         -> {"brand-dropdown-single"}

\* the Input(...) components of a callback
Inputs(cb) ==
    CASE cb = "update_mileage_chart" -> {"brand-dropdown-multi"}
      [] cb = "update_price_graph"   -> {"brand-dropdown-multi", "year-range-slider"}
      [] cb = "update_table"         -> {"brand-dropdown-single"}

\* the callbacks a change of the component id dispatches
Triggered(id) == {cb \in Callbacks : id \in Inputs(cb)}

----------------------------------------------------------------------------
(* The page: app.layout and the renderer *)

\* the arguments the renderer passes to a callback: the values of its Inputs
Args(cb) ==
    CASE cb = "update_mileage_chart" -> <<selected_brands>>
      [] cb = "update_price_graph"   -> <<selected_brands, selected_years>>
      [] cb = "update_table"         -> <<selected_brand>>

\* the Output(...) property of a callback
Displayed(cb) ==
    CASE cb = "update_mileage_chart" -> mileage_fig
      [] cb = "update_price_graph"   -> price_fig
      [] cb = "update_table"         -> table_children

\* what a run of cb leaves of the remembered invocation: when the remembered one is
\* of cb and this run has other arguments, it is marked as followed by another
Observe(cb) ==
    IF snap # <<>> /\ snap[1].fn = cb /\ snap[1].args # Args(cb)
    THEN <<[snap[1] EXCEPT !.again = TRUE]>>
    ELSE snap

\* the module-level code and the layout's initial values; on page load the renderer
\* dispatches every callback once
Init ==
    /\ df \in DataFrames
    /\ min_year = MinYear(df)
    /\ max_year = MaxYear(df)
    /\ sorted_brands = SortedBrands(df)
    /\ selected_brands = {SortedBrands(df)[1]}
    /\ selected_years = <<MinYear(df), MaxYear(df)>>
    /\ selected_brand = SortedBrands(df)[1]
    /\ mileage_fig = <<>>
    /\ price_fig = <<>>
    /\ table_children = <<>>
    /\ pending = Callbacks
    /\ call = <<>>
    /\ snap = <<>>

\* the user picks one more option of brand-dropdown-multi
AddBrand(b) ==
    /\ pending = {}
    /\ b \in Range(sorted_brands) \ selected_brands
    /\ selected_brands' = selected_brands \cup {b}
    /\ pending' = Triggered("brand-dropdown-multi")
    /\ UNCHANGED <<df, min_year, max_year, sorted_brands, selected_years, selected_brand,
                   mileage_fig, price_fig, table_children, call, snap>>

\* the user removes one selected value of brand-dropdown-multi by the x of its tag;
\* clearable=False hides only the x that clears the whole control at once
RemoveBrand(b) ==
    /\ pending = {}
    /\ b \in selected_brands
    /\ selected_brands' = selected_brands \ {b}
    /\ pending' = Triggered("brand-dropdown-multi")
    /\ UNCHANGED <<df, min_year, max_year, sorted_brands, selected_years, selected_brand,
                   mileage_fig, price_fig, table_children, call, snap>>

\* the user drags a handle of year-range-slider: any pair of marks low <= high
MoveSlider(lo, hi) ==
    /\ pending = {}
    /\ lo \in min_year..max_year
    /\ hi \in lo..max_year
    /\ <<lo, hi>> # selected_years
    /\ selected_years' = <<lo, hi>>
    /\ pending' = Triggered("year-range-slider")
    /\ UNCHANGED <<df, min_year, max_year, sorted_brands, selected_brands, selected_brand,
                   mileage_fig, price_fig, table_children, call, snap>>

\* the user picks another option of brand-dropdown-single (clearable=False: it has no
\* way to hold no value)
SelectBrand(b) ==
    /\ pending = {}
    /\ b \in Range(sorted_brands) \ {selected_brand}
    /\ selected_brand' = b
    /\ pending' = Triggered("brand-dropdown-single")
    /\ UNCHANGED <<df, min_year, max_year, sorted_brands, selected_brands, selected_years,
                   mileage_fig, price_fig, table_children, call, snap>>

\* RunMileage, had the callback assigned its filtered frame to the global df
RunMileageInPlace ==
    /\ "update_mileage_chart" \in pending
    /\ df' = Filter(df, MileageMask(df, selected_brands))
    /\ mileage_fig' = <<update_mileage_chart(selected_brands)>>
    /\ pending' = pending \ {"update_mileage_chart"}
    /\ snap' = Observe("update_mileage_chart")
    /\ UNCHANGED <<min_year, max_year, sorted_brands, selected_brands, selected_years,
                   selected_brand, price_fig, table_children, call>>

\* a dispatched update_mileage_chart runs and its figure is rendered
RunMileage ==
    /\ "update_mileage_chart" \in pending
    /\ mileage_fig' = <<update_mileage_chart(selected_brands)>>
    /\ pending' = pending \ {"update_mileage_chart"}
    /\ snap' = Observe("update_mileage_chart")
    /\ UNCHANGED <<df, min_year, max_year, sorted_brands, selected_brands, selected_years,
                   selected_brand, price_fig, table_children, call>>

\* a dispatched update_price_graph runs and its figure is rendered
RunPrice ==
    /\ "update_price_graph" \in pending
    /\ price_fig' = <<update_price_graph(selected_brands, selected_years)>>
    /\ pending' = pending \ {"update_price_graph"}
    /\ snap' = Observe("update_price_graph")
    /\ UNCHANGED <<df, min_year, max_year, sorted_brands, selected_brands, selected_years,
                   selected_brand, mileage_fig, table_children, call>>

\* RunTable, had the callback assigned its filtered frame to the global df
RunTableInPlace ==
    /\ "update_table" \in pending
    /\ df' = Filter(df, TableMask(df, selected_brand))
    /\ table_children' = <<update_table(selected_brand)>>
    /\ pending' = pending \ {"update_table"}
    /\ snap' = Observe("update_table")
    /\ UNCHANGED <<min_year, max_year, sorted_brands, selected_brands, selected_years,
                   selected_brand, mileage_fig, price_fig, call>>

\* a dispatched update_table runs and its children are rendered
RunTable ==
    /\ "update_table" \in pending
    /\ table_children' = <<update_table(selected_brand)>>
    /\ pending' = pending \ {"update_table"}
    /\ snap' = Observe("update_table")
    /\ UNCHANGED <<df, min_year, max_year, sorted_brands, selected_brands, selected_years,
                   selected_brand, mileage_fig, price_fig, call>>

Next ==
    \/ \E b \in BrandUniverse : AddBrand(b)
    \/ \E b \in BrandUniverse : RemoveBrand(b)
    \/ \E lo \in YearUniverse, hi \in YearUniverse : MoveSlider(lo, hi)
    \/ \E b \in BrandUniverse : SelectBrand(b)
    \/ RunMileage
    \/ RunPrice
    \/ RunTable

Spec == Init /\ [][Next]_vars

----------------------------------------------------------------------------
(* The callbacks called directly, once, with any arguments *)

\* the module-level code has run; no page is open
InitFn ==
    /\ df \in DataFrames
    /\ min_year = MinYear(df)
    /\ max_year = MaxYear(df)
    /\ sorted_brands = SortedBrands(df)
    /\ selected_brands = {SortedBrands(df)[1]}
    /\ selected_years = <<MinYear(df), MaxYear(df)>>
    /\ selected_brand = SortedBrands(df)[1]
    /\ mileage_fig = <<>>
    /\ price_fig = <<>>
    /\ table_children = <<>>
    /\ pending = {}
    /\ call = <<>>
    /\ snap = <<>>

CallMileage(brands) ==
    /\ call = <<>>
    /\ call' = <<[fn |-> "update_mileage_chart", args |-> <<brands>>,
                  out |-> update_mileage_chart(brands)]>>
    /\ UNCHANGED <<df, min_year, max_year, sorted_brands, selected_brands, selected_years,
                   selected_brand, mileage_fig, price_fig, table_children, pending, snap>>

CallPrice(brands, years) ==
    /\ call = <<>>
    /\ call' = <<[fn |-> "update_price_graph", args |-> <<brands, years>>,
                  out |-> update_price_graph(brands, years)]>>
    /\ UNCHANGED <<df, min_year, max_year, sorted_brands, selected_brands, selected_years,
                   selected_brand, mileage_fig, price_fig, table_children, pending, snap>>

CallTable(brand) ==
    /\ call = <<>>
    /\ call' = <<[fn |-> "update_table", args |-> <<brand>>,
                  out |-> update_table(brand)]>>
    /\ UNCHANGED <<df, min_year, max_year, sorted_brands, selected_brands, selected_years,
                   selected_brand, mileage_fig, price_fig, table_children, pending, snap>>

NextFn ==
    \/ \E brands \in SUBSET BrandUniverse : CallMileage(brands)
    \/ \E brands \in SUBSET BrandUniverse, lo \in YearUniverse, hi \in YearUniverse :
          CallPrice(brands, <<lo, hi>>)
    \/ \E brand \in BrandUniverse : CallTable(brand)

SpecFn == InitFn /\ [][NextFn]_vars

----------------------------------------------------------------------------
(* The page, with one earlier invocation remembered *)

\* the latest invocation of cb (it has run on the current values of its Inputs and
\* its output is on the page) is remembered
Remember(cb) ==
    /\ snap = <<>>
    /\ cb \notin pending
    /\ snap' = <<[fn |-> cb, args |-> Args(cb), out |-> Displayed(cb)[1], again |-> FALSE]>>
    /\ UNCHANGED <<df, min_year, max_year, sorted_brands, selected_brands, selected_years,
                   selected_brand, mileage_fig, price_fig, table_children, pending, call>>

NextIdem ==
    \/ Next
    \/ \E cb \in Callbacks : Remember(cb)

\* the records of the data.csv files this specification loads: two brands, both
\* transmissions, a year without a record between two with
RowsIdem == {r \in RowUniverse : r.brand # "ford" /\ r.model_year # 2016}

InitIdem == Init /\ df \in read_csv(RowsIdem)

SpecIdem == InitIdem /\ [][NextIdem]_vars

----------------------------------------------------------------------------
(* Properties of the callbacks' results (SpecFn) *)

\* the direct invocation is of fn
Called(fn) == call # <<>> /\ call[1].fn = fn

\* the positions of the rows of df whose brand is in brands
OfBrands(brands) == {i \in DOMAIN df.rows : df.rows[i].brand \in brands}

\* the positions of the rows of df whose model_year is in [lo, hi]
InYears(lo, hi) == {i \in DOMAIN df.rows : lo <= df.rows[i].model_year /\ df.rows[i].model_year <= hi}

\* the positions of the rows of df of a (brand, transmission) pair
OfPair(k) == {i \in DOMAIN df.rows : df.rows[i].brand = k[1] /\ df.rows[i].transmission = k[2]}

\* the sum of mileage over the rows of df at the positions I
RECURSIVE MileageOver(_)
MileageOver(I) ==
    IF I = {} THEN 0
    ELSE LET i == CHOOSE i \in I : TRUE
         IN  df.rows[i].mileage + MileageOver(I \ {i})

\* the bars of a figure of update_mileage_chart: (trace, position) pairs
Bars(fig) == UNION { {<<n, i>> : i \in DOMAIN fig.data[n].x} : n \in DOMAIN fig.data }

\* the (brand, transmission) pair a bar stands for
BarPair(fig, b) == <<fig.data[b[1]].x[b[2]], fig.data[b[1]].name>>

\* C1: for a non-empty selection that matches a row, update_mileage_chart draws
\* exactly one bar per (brand, transmission) pair among the rows whose brand is
\* selected, no other bar, and the height of each bar is the sum of mileage over
\* exactly the rows of its pair divided by their number
C1_MileageBars ==
    Called("update_mileage_chart") =>
        LET brands == call[1].args[1]
            fig == call[1].out
            pairs == {<<df.rows[i].brand, df.rows[i].transmission>> : i \in OfBrands(brands)}
        IN  (brands # {} /\ OfBrands(brands) # {}) =>
                /\ {BarPair(fig, b) : b \in Bars(fig)} = pairs
                /\ Cardinality(Bars(fig)) = Cardinality(pairs)
                /\ \A b \in Bars(fig) :
                      LET I == OfPair(BarPair(fig, b))
                          mean == fig.data[b[1]].y[b[2]]
                      IN  /\ mean.den > 0
                          /\ mean.num * Cardinality(I) = mean.den * MileageOver(I)

\* a selection of two brands; a pair with two rows whose mean is no whole number, and
\* a row of a brand that is not selected
C1_Witness ==
    /\ Called("update_mileage_chart")
    /\ Cardinality(call[1].args[1]) = 2
    /\ \E b \in Bars(call[1].out) : call[1].out.data[b[1]].y[b[2]] = [num |-> 70001, den |-> 2]
    /\ \E i \in DOMAIN df.rows : df.rows[i].brand \notin call[1].args[1]

\* the points of a figure of update_price_graph: (trace, position) pairs
Points(fig) == UNION { {<<n, i>> : i \in DOMAIN fig.data[n].x} : n \in DOMAIN fig.data }

\* what a point shows: colour category, x, y and hover data
PointOf(fig, p) ==
    <<fig.data[p[1]].name, fig.data[p[1]].x[p[2]], fig.data[p[1]].y[p[2]],
      fig.data[p[1]].customdata[p[2]]>>

\* what the point of a row shows
PointOfRow(r) == <<r.brand, r.model_year, r.price, r.model>>

\* C2: update_price_graph draws one point per row of df whose brand is selected and
\* whose model_year lies in [low, high], both ends included: as many points as such
\* rows, each row's point as often as the row occurs, and no other point
C2_PricePoints ==
    Called("update_price_graph") =>
        LET brands == call[1].args[1]
            years == call[1].args[2]
            fig == call[1].out
            I == OfBrands(brands) \cap InYears(years[1], years[2])
        IN  /\ Cardinality(Points(fig)) = Cardinality(I)
            /\ \A t \in {PointOf(fig, p) : p \in Points(fig)}
                        \cup {PointOfRow(df.rows[i]) : i \in I} :
                  Cardinality({p \in Points(fig) : PointOf(fig, p) = t})
                    = Cardinality({i \in I : PointOfRow(df.rows[i]) = t})

\* two points, one at each end of the year range, a row left out for its year and a
\* row left out for its brand
C2_Witness ==
    /\ Called("update_price_graph")
    /\ call[1].args[2] = <<2016, 2017>>
    /\ \E p, q \in Points(call[1].out) :
          /\ PointOf(call[1].out, p)[2] = 2016
          /\ PointOf(call[1].out, q)[2] = 2017
    /\ \E i \in DOMAIN df.rows : df.rows[i].brand \notin call[1].args[1]

\* the k-th smallest member of a set of positions
Kth(I, k) == CHOOSE i \in I : Cardinality({j \in I : j < i}) = k - 1

\* C3: for a brand that matches a row, update_table returns exactly the rows whose
\* brand is that very string, in the order they have in df, each once, under the
\* columns of df in their order
C3_TableRows ==
    Called("update_table") =>
        LET brand == call[1].args[1]
            out == call[1].out
            I == OfBrands({brand})
        IN  I # {} =>
                /\ Len(out) = 2
                /\ out[2].tag = "DataTable"
                /\ Len(out[2].data) = Cardinality(I)
                /\ \A k \in 1..Cardinality(I) : out[2].data[k] = df.rows[Kth(I, k)]
                /\ Len(out[2].columns) = Len(df.columns)
                /\ \A c \in DOMAIN df.columns :
                      /\ out[2].columns[c].name = df.columns[c]
                      /\ out[2].columns[c].id = df.columns[c]

\* the table of "Ford" over rows Ford, ford, Ford: two rows, the second Ford row last
C3_Witness ==
    /\ Called("update_table")
    /\ call[1].args[1] = "Ford"
    /\ Len(df.rows) = 3
    /\ df.rows[2].brand = "ford"
    /\ df.rows[1].brand = "Ford"
    /\ df.rows[3].brand = "Ford"
    /\ df.rows[1] # df.rows[3]
    /\ call[1].out[2].data = <<df.rows[1], df.rows[3]>>

\* C4: a filter that matches no row gives the no-data result: update_mileage_chart
\* and update_price_graph return the figure without traces whose title says so, for
\* every selection that holds no brand of df (update_price_graph also when the year
\* range leaves no row), and update_table returns the one heading that names the
\* brand, for every brand that is in no row
C4_EmptyResult ==
    /\ (Called("update_mileage_chart") /\ OfBrands(call[1].args[1]) = {}) =>
                /\ call[1].out.data = <<>>
                /\ call[1].out.title = "No data available for selected brands"
    /\ (/\ Called("update_price_graph")
        /\ OfBrands(call[1].args[1]) \cap InYears(call[1].args[2][1], call[1].args[2][2]) = {}) =>
                /\ call[1].out.data = <<>>
                /\ call[1].out.title = "No data available for selected criteria"
    /\ (Called("update_table") /\ OfBrands({call[1].args[1]}) = {}) =>
                /\ Len(call[1].out) = 1
                /\ call[1].out[1].tag = "H6"
                /\ call[1].out[1].text = <<"No data available for ", call[1].args[1]>>

\* update_table for "Toyota", which is in no row
C4_Witness ==
    /\ Called("update_table")
    /\ call[1].args[1] = "Toyota"
    /\ call[1].out[1].text[2] = "Toyota"

\* the number a sequence of decimal digit codes writes
RECURSIVE ParseDec(_)
ParseDec(cs) ==
    IF cs = <<>> THEN 0
    ELSE 10 * ParseDec(SubSeq(cs, 1, Len(cs) - 1)) + (cs[Len(cs)] - 48)

\* cs is the decimal text of n: digits only, no leading zero, value n
IsDecimalOf(cs, n) ==
    /\ Len(cs) >= 1
    /\ \A i \in DOMAIN cs : cs[i] >= 48 /\ cs[i] <= 57
    /\ (Len(cs) > 1 => cs[1] # 48)
    /\ ParseDec(cs) = n

\* C9: a figure of update_price_graph with points carries as tick values exactly the
\* integers low..high, ascending and each once, and as tick texts their decimal
\* texts, whatever years the points have
C9_YearTicks ==
    Called("update_price_graph") =>
        LET lo == call[1].args[2][1]
            hi == call[1].args[2][2]
            axis == call[1].out.xaxis
        IN  call[1].out.data # <<>> =>
                /\ axis.tickmode = "array"
                /\ Len(axis.tickvals) = hi - lo + 1
                /\ Len(axis.ticktext) = hi - lo + 1
                /\ \A i \in 1..(hi - lo + 1) :
                      /\ axis.tickvals[i] = lo + i - 1
                      /\ IsDecimalOf(axis.ticktext[i], lo + i - 1)

\* a figure over 2015..2017 with points and none of them in 2016
C9_Witness ==
    /\ Called("update_price_graph")
    /\ call[1].args[2] = <<2015, 2017>>
    /\ call[1].out.data # <<>>
    /\ \A p \in Points(call[1].out) : PointOf(call[1].out, p)[2] # 2016
    /\ call[1].out.xaxis.tickvals = <<2015, 2016, 2017>>

----------------------------------------------------------------------------
(* Properties of the page (Spec, SpecIdem) *)

\* the brands that occur in df
BrandsOf(d) == {d.rows[i].brand : i \in DOMAIN d.rows}

\* the years that occur in df
YearsOf(d) == {d.rows[i].model_year : i \in DOMAIN d.rows}

\* C8: the filter state is valid in every state of the page: at page load the first
\* brand in case-insensitive alphabetical order is the one selected in both
\* dropdowns and the whole year range is selected, and always selected_brands is a
\* non-empty set of brands of df, selected_brand is a brand of df, and
\* min year <= low <= high <= max year
C8_FilterStateValid ==
    /\ pending = Callbacks =>
          /\ \E b \in BrandsOf(df) :
                /\ \A c \in BrandsOf(df) : ~LexLess(Lower(Codes(c)), Lower(Codes(b)))
                /\ selected_brands = {b}
                /\ selected_brand = b
          /\ selected_years = <<Min(YearsOf(df)), Max(YearsOf(df))>>
    /\ selected_brands # {}
    /\ selected_brands \subseteq BrandsOf(df)
    /\ selected_brand \in BrandsOf(df)
    /\ Min(YearsOf(df)) <= selected_years[1]
    /\ selected_years[1] <= selected_years[2]
    /\ selected_years[2] <= Max(YearsOf(df))

\* after the step, every callback that is not pending shows its result on the filter
\* state after the step (df is the same before and after every step, see C6)
UpToDateAfter ==
    /\ "update_mileage_chart" \notin pending' =>
          mileage_fig' = <<update_mileage_chart(selected_brands')>>
    /\ "update_price_graph" \notin pending' =>
          price_fig' = <<update_price_graph(selected_brands', selected_years')>>
    /\ "update_table" \notin pending' =>
          table_children' = <<update_table(selected_brand')>>

\* at most the output of cb changes
OnlyOutput(cb) ==
    /\ cb # "update_mileage_chart" => mileage_fig' = mileage_fig
    /\ cb # "update_price_graph" => price_fig' = price_fig
    /\ cb # "update_table" => table_children' = table_children

\* C10: a change of selected_brands dispatches the bar chart's and the scatterplot's
\* callback and no other, a change of selected_years the scatterplot's alone, a
\* change of selected_brand the table's alone, and the change itself alters no
\* output; an output changes only by a run of its own dispatched callback, which
\* leaves the other outputs as they are; and after every step every output whose
\* callback is not pending is its callback's result on the current filter state
C10_Recompute ==
    [][ /\ selected_brands' # selected_brands =>
              /\ pending' = {"update_mileage_chart", "update_price_graph"}
              /\ OnlyOutput("none")
        /\ selected_years' # selected_years =>
              /\ pending' = {"update_price_graph"}
              /\ OnlyOutput("none")
        /\ selected_brand' # selected_brand =>
              /\ pending' = {"update_table"}
              /\ OnlyOutput("none")
        /\ \A cb \in Callbacks :
              Displayed(cb)' # Displayed(cb) =>
                  /\ cb \in pending
                  /\ pending' = pending \ {cb}
                  /\ OnlyOutput(cb)
        /\ UpToDateAfter ]_vars

\* every event has been handled to its end after each control was changed
C10_Witness ==
    /\ pending = {}
    /\ selected_years = <<2016, 2016>>
    /\ selected_years # <<min_year, max_year>>
    /\ selected_brand # first_brand
    /\ Cardinality(selected_brands) = 2
    /\ mileage_fig # <<>> /\ price_fig # <<>> /\ table_children # <<>>

\* C6: no step of the page changes df, and a run of one callback leaves the outputs
\* of the other two as they were
C6_DatasetFrame ==
    [][ /\ df' = df
        /\ \A cb \in Callbacks : Displayed(cb)' # Displayed(cb) => OnlyOutput(cb) ]_vars

\* all three callbacks have run again after the page load, each on a changed control
C6_Witness ==
    /\ pending = {}
    /\ first_brand \notin selected_brands
    /\ selected_brands # {}
    /\ selected_years[1] > min_year
    /\ selected_brand # first_brand
    /\ mileage_fig[1].data # <<>>
    /\ table_children # <<>>

\* C7: a callback run again on the arguments of a remembered earlier run of it, with
\* whatever runs of it and of the others in between, shows what the earlier run gave
C7_Idempotent ==
    snap # <<>> =>
        ((snap[1].fn \notin pending /\ Args(snap[1].fn) = snap[1].args)
            => Displayed(snap[1].fn) = <<snap[1].out>>)

\* the remembered callback has run on other arguments and then again on the
\* remembered ones
C7_Witness ==
    /\ snap # <<>>
    /\ snap[1].again
    /\ snap[1].fn = "update_price_graph"
    /\ snap[1].fn \notin pending
    /\ Args(snap[1].fn) = snap[1].args
    /\ snap[1].out.data # <<>>

\* C5 as claimed: from one figure of a graph to the next, a category that is in both
\* (a transmission in the bar chart, a brand in the scatterplot) keeps its colour
C5_ColorByValueAlone ==
    [][ /\ (mileage_fig # <<>> /\ mileage_fig' # <<>>) =>
              \A m \in DOMAIN mileage_fig[1].data, n \in DOMAIN mileage_fig'[1].data :
                  mileage_fig[1].data[m].name = mileage_fig'[1].data[n].name
                     => mileage_fig[1].data[m].color = mileage_fig'[1].data[n].color
        /\ (price_fig # <<>> /\ price_fig' # <<>>) =>
              \A m \in DOMAIN price_fig[1].data, n \in DOMAIN price_fig'[1].data :
                  price_fig[1].data[m].name = price_fig'[1].data[n].name
                     => price_fig[1].data[m].color = price_fig'[1].data[n].color ]_vars

\* the first (brand, transmission) pair, in groupby's order, with transmission t
\* among the rows at the positions I
FirstPair(I, t) ==
    CHOOSE k \in {<<df.rows[i].brand, t>> : i \in {j \in I : df.rows[j].transmission = t}} :
        \A i \in I : df.rows[i].transmission = t /\ df.rows[i].brand # k[1]
                        => StrLess(k[1], df.rows[i].brand)

\* the first position in I of a row of brand b
FirstRow(I, b) == Min({i \in I : df.rows[i].brand = b})

\* the n-th trace has the n-th colour of the six, counted round
PaletteInOrder(fig) ==
    \A n \in DOMAIN fig.data :
        /\ fig.data[n].color = colors[((n - 1) % 6) + 1]
        /\ \A m \in DOMAIN fig.data : m # n => fig.data[m].name # fig.data[n].name

\* C5 as amended: in every figure the n-th trace has the n-th palette colour (counted
\* round the six), and the traces stand in the order in which their categories first
\* appear in the rows plotted: the transmissions in the aggregate sorted by (brand,
\* transmission) for the bar chart, the brands in the filtered rows of df for the
\* scatterplot
C5_ColorByFirstAppearance ==
    /\ mileage_fig # <<>> => PaletteInOrder(mileage_fig[1])
    /\ price_fig # <<>> => PaletteInOrder(price_fig[1])
    /\ "update_mileage_chart" \notin pending =>
          LET fig == mileage_fig[1]
              I == OfBrands(selected_brands)
          IN  /\ {fig.data[n].name : n \in DOMAIN fig.data} = {df.rows[i].transmission : i \in I}
              /\ \A m, n \in DOMAIN fig.data :
                    m < n => KeyLess(FirstPair(I, fig.data[m].name), FirstPair(I, fig.data[n].name))
    /\ "update_price_graph" \notin pending =>
          LET fig == price_fig[1]
              I == OfBrands(selected_brands) \cap InYears(selected_years[1], selected_years[2])
          IN  /\ {fig.data[n].name : n \in DOMAIN fig.data} = {df.rows[i].brand : i \in I}
              /\ \A m, n \in DOMAIN fig.data :
                    m < n => FirstRow(I, fig.data[m].name) < FirstRow(I, fig.data[n].name)

\* the bar chart of audi and Ford where "manual" comes first (Ford < audi in
\* groupby's order) and takes the first colour, "automatic" the second
C5_Witness ==
    /\ pending = {}
    /\ selected_brands = {"audi", "Ford"}
    /\ Len(mileage_fig[1].data) = 2
    /\ mileage_fig[1].data[1].name = "manual"
    /\ mileage_fig[1].data[1].color = colors[1]
    /\ mileage_fig[1].data[2].name = "automatic"
    /\ mileage_fig[1].data[2].color = colors[2]

====
